---- MODULE Spec2Model ----
(***************************************************************************)
(* Quiz cache-or-generate flow of the SkillSage backend                    *)
(* (backend/src/routes/quiz.ts, generateQuizHandler).                      *)
(*                                                                         *)
(* Every request runs the handler.  The handler suspends only at an await  *)
(* (a store query or the model call); the code between two awaits runs to  *)
(* completion on the event loop.  One action of the model is therefore one *)
(* await together with the synchronous code that follows it.               *)
(***************************************************************************)
EXTENDS Integers, Sequences, FiniteSets, TLC

\* ------------------------------------------------------------------ bounds
MaxRequests == 2
NumVariants == 2

\* -------------------------------------------------------- program constants
QuizSize == 10

Requests == 1..MaxRequests
Variants == 1..NumVariants

\* Domains a caller asks for: one key of the title table, one outside it.
Domains == {"algorithms", "rust"}

\* req.query.domain as express hands it over: absent, a string, or an array
\* (a repeated parameter).
Absent == [type |-> "undefined", value |-> ""]
QueryInputs ==
    {[type |-> "string", value |-> d] : d \in Domains \cup {""}}
        \cup {Absent, [type |-> "array", value |-> "algorithms"]}

\* Variant: only the type of the parameter is looked at.
DomainRejected_TypeOnly(q) == q.type # "string"

\* `!domain || typeof domain !== 'string'`
DomainRejected(q) == q.type # "string" \/ q.value = ""

\* Variant: the table has no entry for networking.
getDomainTitle_NoNetworking(domain) ==
    CASE domain = "web-development" -> "Web Development Quiz"
      [] domain = "data-science"    -> "Data Science Quiz"
      [] domain = "backend"         -> "Backend Development Quiz"
      [] domain = "ai-ml"           -> "AI / ML Quiz"
      [] domain = "algorithms"      -> "Algorithms & Data Structures Quiz"
      [] OTHER                      -> "Skill Assessment Quiz"

\* lines 170-187: a switch on the domain string
getDomainTitle(domain) ==
    CASE domain = "web-development" -> "Web Development Quiz"
      [] domain = "data-science"    -> "Data Science Quiz"
      [] domain = "backend"         -> "Backend Development Quiz"
      [] domain = "ai-ml"           -> "AI / ML Quiz"
      [] domain = "networking"      -> "Computer Networking Quiz"
      [] domain = "algorithms"      -> "Algorithms & Data Structures Quiz"
      [] OTHER                      -> "Skill Assessment Quiz"

\* --------------------------------------------------------------- start-up
\* A variable of process.env after dotenv.config(): not there, there and
\* empty, or there with a value.
Unset == "unset"
Empty == ""
IsSet == "set"
EnvValues == {Unset, Empty, IsSet}

\* NODE_ENV; index.ts:37 reads an unset NODE_ENV as development.
Modes == {"development", "production"}

Envs ==
    [NODE_ENV : Modes, SUPABASE_URL : EnvValues, SUPABASE_KEY : EnvValues,
     OPEN_AI_KEY : EnvValues]

\* `!supabaseUrl`, `!supabaseKey`: unset and empty are both refused.
Falsy(v) == v # IsSet

\* supabase/client: `if (!supabaseUrl) throw`, `if (!supabaseKey) throw`
ClientThrows(e) == Falsy(e.SUPABASE_URL) \/ Falsy(e.SUPABASE_KEY)

\* `new OpenAI({ apiKey: process.env.OPEN_AI_KEY! })`: the handler's module
\* checks nothing itself; the client's constructor refuses an undefined key
\* and takes any string.
OpenAIThrows(e) == e.OPEN_AI_KEY = Unset

\* ------------------------------------------------------- the model's reply
\* A question object of the model's array.  A missing field is "undefined";
\* options are represented by their key set and the variant they came from.
OptionKeys == {"A", "B", "C", "D"}

GoodItem(v, i) ==
    [kind |-> "object", question |-> <<v, i>>,
     options |-> [k \in OptionKeys |-> v],
     correct_answer |-> IF (i + v) % 2 = 0 THEN "A" ELSE "B"]

NullItem ==
    [kind |-> "null", question |-> <<>>, options |-> <<>>,
     correct_answer |-> "undefined"]

GoodItems(v, n) == [i \in 1..n |-> GoodItem(v, i)]

\* Ten entries, the last one malformed in one of the ways a schema check
\* would reject.
Malformed(how) ==
    LET g == GoodItem(1, QuizSize)
        bad == CASE how = "no_correct_answer" ->
                      [g EXCEPT !.correct_answer = "undefined"]
                 [] how = "no_question" -> [g EXCEPT !.question = <<>>]
                 [] how = "no_options" -> [g EXCEPT !.options = <<>>]
                 [] how = "bad_option_keys" ->
                      [g EXCEPT !.options = [k \in {"A", "B", "C"} |-> 1]]
                 [] how = "answer_out_of_range" ->
                      [g EXCEPT !.correct_answer = "E"]
                 [] OTHER -> NullItem
    IN  [GoodItems(1, QuizSize) EXCEPT ![QuizSize] = bad]

MalformedKinds == {"no_correct_answer", "bad_option_keys", "null_entry"}

\* The completion text as a token sequence: a code fence, the tag "json",
\* white space, or a stretch of text that is a JSON value or is not.
Fence == [t |-> "fence", json |-> "", items |-> <<>>]
Tag   == [t |-> "tag",   json |-> "", items |-> <<>>]
Ws    == [t |-> "ws",    json |-> "", items |-> <<>>]
Prose == [t |-> "text",  json |-> "invalid", items |-> <<>>]
JsonObject == [t |-> "text", json |-> "object", items |-> <<>>]
JsonArray(items) == [t |-> "text", json |-> "array", items |-> items]

\* What response.choices[0]?.message?.content can be: the shapes that
\* decide how concurrent requests meet in the store ...
CoreContents ==
    {<<JsonArray(GoodItems(v, QuizSize))>> : v \in Variants}
        \cup {<<JsonArray(Malformed("no_correct_answer"))>>,
              <<JsonArray(GoodItems(1, QuizSize - 1))>>,
              <<>>}

\* ... and every shape the cleaning and parsing code tells apart.
Contents ==
    CoreContents
        \cup {<<JsonArray(Malformed(h))>> : h \in MalformedKinds}
        \cup {<<Fence, Tag, Ws, JsonArray(GoodItems(1, QuizSize)), Ws, Fence>>,
              <<Fence, Ws, JsonArray(GoodItems(1, QuizSize)), Ws, Fence>>,
              <<JsonArray(GoodItems(1, QuizSize + 1))>>,
              <<JsonObject>>,
              <<Prose>>,
              <<Ws>>}

RECURSIVE TrimLeft(_)
TrimLeft(s) ==
    IF s # <<>> /\ Head(s) = Ws THEN TrimLeft(Tail(s)) ELSE s

RECURSIVE TrimRight(_)
TrimRight(s) ==
    IF s # <<>> /\ s[Len(s)] = Ws THEN TrimRight(SubSeq(s, 1, Len(s) - 1))
    ELSE s

\* Variant: the text is taken as it comes.
Trim_None(s) == s

\* String.prototype.trim
Trim(s) == TrimRight(TrimLeft(s))

\* .replace(/^```json\s*/i, '')
StripLeadingFence(s) ==
    IF Len(s) >= 2 /\ s[1] = Fence /\ s[2] = Tag
    THEN TrimLeft(SubSeq(s, 3, Len(s)))
    ELSE s

\* .replace(/```$/, '')
StripTrailingFence(s) ==
    IF s # <<>> /\ s[Len(s)] = Fence THEN SubSeq(s, 1, Len(s) - 1) ELSE s

cleanedResponse(raw) == Trim(StripTrailingFence(StripLeadingFence(raw)))

\* JSON.parse: the text, white space aside, is one JSON value, or it throws.
ParseThrows(cleaned) ==
    LET t == Trim(cleaned) IN ~(Len(t) = 1 /\ t[1].json \in {"array", "object"})

\* `Array.isArray(parsed) ? parsed : []`
quizQuestions(cleaned) ==
    LET v == Trim(cleaned)[1] IN IF v.json = "array" THEN v.items ELSE <<>>

\* Variant: only an array that is too long is refused.
WrongLength_TooLongOnly(n) == n > QuizSize

\* `quizQuestions.length !== 10`
WrongLength(n) == n # QuizSize

\* The inner try block throws: its catch answers the format error.
FormatInvalid(raw) ==
    LET c == cleanedResponse(raw)
    IN  ParseThrows(c) \/ WrongLength(Len(quizQuestions(c)))

\* quizQuestions.map(...): reading a property of null throws a TypeError.
MapThrows(qs) == \E i \in 1..Len(qs) : qs[i].kind = "null"

\* Variant: the rows are tied to the quiz with id 1.
questionsToInsertOf_FirstQuiz(qs, qid) ==
    [i \in 1..Len(qs) |->
        [quiz_id |-> 1, question |-> qs[i].question,
         options |-> qs[i].options, correct_answer |-> qs[i].correct_answer,
         question_order |-> i]]

\* Variant: the rows are numbered from 0, as the array's indexes are.
questionsToInsertOf_ZeroBased(qs, qid) ==
    [i \in 1..Len(qs) |->
        [quiz_id |-> qid, question |-> qs[i].question,
         options |-> qs[i].options, correct_answer |-> qs[i].correct_answer,
         question_order |-> i - 1]]

\* lines 133-139: `question_order: index + 1`, index from 0
questionsToInsertOf(qs, qid) ==
    [i \in 1..Len(qs) |->
        [quiz_id |-> qid, question |-> qs[i].question,
         options |-> qs[i].options, correct_answer |-> qs[i].correct_answer,
         question_order |-> i]]

\* ---------------------------------------------------------------- the store
\* Outcome of one store call: it either reaches the tables or fails with an
\* infrastructure error.
StoreOutcomes == {"ok", "fail"}

\* error.message of a failed store call, of a refused insert, and of a
\* rejected model call.
StoreMessages == {"timeout", "connection refused"}
DuplicateKey == "duplicate key value"
ConnectionError == "Connection error."
IncorrectKey == "401 Incorrect API key"

\* `Error checking quiz: ${quizError.message}` and its likes
ErrorMessage(what, message) == what \o ": " \o message

NoError    == "none"
NotFound   == "PGRST116"
StoreError == "OTHER"

\* Variant: the lookup never finds the row.
Single_NeverFinds(rows) == [data |-> {}, error |-> NotFound]

\* .single(): exactly one row is data, anything else is error PGRST116.
Single(rows) ==
    IF Cardinality(rows) = 1
    THEN [data |-> rows, error |-> NoError]
    ELSE [data |-> {}, error |-> NotFound]

\* Variant: every lookup error is taken for absence.
LookupAborts_Never(err) == FALSE

\* Variant: every lookup error aborts, the no-row signal too.
LookupAborts_OnAnyError(err) == err # NoError

\* `quizError && quizError.code !== 'PGRST116'`
LookupAborts(err) == err # NoError /\ err # NotFound

\* Variant: the quizzes table accepts a second row for a domain.
UniqueViolation_Never(rows, domain) == FALSE

\* The quizzes table declares domain unique: an insert of a domain that has
\* a row is refused.
UniqueViolation(rows, domain) == \E q \in rows : q.domain = domain

\* Variant: the stored rows are never taken for a cache hit.
HasQuestions_Never(n) == FALSE

\* Variant: a full set of rows is not yet a cache hit.
HasQuestions_MoreThanTen(n) == n > QuizSize

\* `existingQuestions && existingQuestions.length > 0`
HasQuestions(n) == n > 0

\* ORDER BY question_order ASC.  Rows of equal question_order come in an
\* order the store does not promise: by ascending or by descending id.
TieOrders == {"asc", "desc"}

\* Variant: ORDER BY question_order DESC.
Before_Descending(x, y, tie) ==
    \/ x.question_order > y.question_order
    \/ /\ x.question_order = y.question_order
       /\ IF tie = "asc" THEN x.id <= y.id ELSE x.id >= y.id

Before(x, y, tie) ==
    \/ x.question_order < y.question_order
    \/ /\ x.question_order = y.question_order
       /\ IF tie = "asc" THEN x.id <= y.id ELSE x.id >= y.id

\* The rows in that order: the i-th is the one with i rows at or before it.
OrderBy(rows, tie) ==
    [i \in 1..Cardinality(rows) |->
        CHOOSE x \in rows :
            Cardinality({y \in rows : Before(y, x, tie)}) = i]

\* select('id, question, options, correct_answer, question_order')
Project(row) ==
    [id |-> row.id, question |-> row.question, options |-> row.options,
     correct_answer |-> row.correct_answer,
     question_order |-> row.question_order]

SelectOrdered(table, qid, tie) ==
    LET s == OrderBy({x \in table : x.quiz_id = qid}, tie)
    IN  [i \in DOMAIN s |-> Project(s[i])]

\* Variant: the rows of every batch get the ids 1, 2, ... again.
InsertedRows_FromOne(table, batch) ==
    {[id |-> i, quiz_id |-> batch[i].quiz_id,
      question |-> batch[i].question, options |-> batch[i].options,
      correct_answer |-> batch[i].correct_answer,
      question_order |-> batch[i].question_order] : i \in 1..Len(batch)}

\* Variant: the insert writes the first row of the batch only.
InsertedRows_FirstOnly(table, batch) ==
    {[id |-> Cardinality(table) + i, quiz_id |-> batch[i].quiz_id,
      question |-> batch[i].question, options |-> batch[i].options,
      correct_answer |-> batch[i].correct_answer,
      question_order |-> batch[i].question_order] : i \in 1..1}

\* insert(questionsToInsert): one statement, the store numbers the rows.
InsertedRows(table, batch) ==
    {[id |-> Cardinality(table) + i, quiz_id |-> batch[i].quiz_id,
      question |-> batch[i].question, options |-> batch[i].options,
      correct_answer |-> batch[i].correct_answer,
      question_order |-> batch[i].question_order] : i \in 1..Len(batch)}

\* Variant: the insert replaces what the table held.
AfterInsert_Replacing(table, batch) == InsertedRows(table, batch)

\* The table after the batch insert.
AfterInsert(table, batch) == table \cup InsertedRows(table, batch)

\* Variant: a failing batch insert leaves its first row behind.
AfterFailedInsert_Partial(table, batch) ==
    table \cup InsertedRows(table, SubSeq(batch, 1, 1))

\* The table after a batch insert that failed: the batch is one statement,
\* so none of its rows is there.
AfterFailedInsert(table, batch) == table

\* ---------------------------------------------------------------- responses
Json200(body) == [status |-> 200, message |-> "", error |-> "", body |-> body]
DomainRequired ==
    [status |-> 400, message |-> "Domain is required.", error |-> "",
     body |-> <<>>]
InvalidFormat ==
    [status |-> 500, message |-> "Invalid JSON format from OpenAI.",
     error |-> "", body |-> <<>>]
\* Variant: the outer catch answers without the error's message.
InternalError_NoDetail(msg) ==
    [status |-> 500, message |-> "Internal server error.", error |-> "",
     body |-> <<>>]

\* the outer catch
InternalError(msg) ==
    [status |-> 500, message |-> "Internal server error.", error |-> msg,
     body |-> <<>>]

\* ------------------------------------------------------------------- state
VARIABLES
    quizzes,            \* table quizzes: rows [id, domain, title]
    quiz_questions,     \* table quiz_questions
    pc,                 \* where each request's handler is suspended
    query,              \* req.query.domain
    quizError,          \* error of the quiz lookup
    quizId,             \* 0 while unassigned
    existingQuestions,  \* number of rows the question lookup returned
    rawResponse,        \* trimmed completion text
    questionsToInsert,
    res,                \* the responses sent on res, in order
    calls,              \* per request, how often each await has answered
    outage,             \* a store call or the model call of the request failed
    env,                \* process.env
    server,             \* "loading", then "listening" or "crashed"
    content,            \* response.choices[0]?.message?.content
    \* the student's quiz page (Quiz.tsx), lines 27-35
    questions,          \* the fetched questions
    currentQuestion,    \* index from 0
    selectedAnswer,
    answers,            \* Record<number, string>
    showResults,
    score,
    isLoading,
    pageQuizId,         \* the page's quizId
    isSubmitting,
    finalScore,         \* argument of the submitQuizResults call in progress
    user,               \* useAuth().user
    toasts,             \* titles of the toasts shown, in order
    quiz_attempts       \* table quiz_attempts

vars == <<quizzes, quiz_questions, pc, query, quizError, quizId,
          existingQuestions, rawResponse, questionsToInsert, res, calls,
          outage, env, server, content,
          questions, currentQuestion, selectedAnswer, answers, showResults,
          score, isLoading, pageQuizId, isSubmitting, finalScore, user,
          toasts, quiz_attempts>>

\* The state of the quiz page and of the table it writes.
pageVars == <<questions, currentQuestion, selectedAnswer, answers,
              showResults, score, isLoading, pageQuizId, isSubmitting,
              finalScore, user, toasts, quiz_attempts>>

\* The state of the backend.
serverVars == <<quizzes, quiz_questions, pc, query, quizError, quizId,
                existingQuestions, rawResponse, questionsToInsert, res,
                calls, outage, env, server, content>>

\* null and undefined of the page's state
Null == "null"
Undefined == "undefined"

Awaits == {"quizLookup", "quizInsert", "questionLookup", "questionFetch",
           "modelCall", "questionInsert", "reread"}

ServerInit ==
    /\ quizzes = {}
    /\ quiz_questions = {}
    /\ pc = [r \in Requests |-> "idle"]
    /\ query = [r \in Requests |-> Absent]
    /\ quizError = [r \in Requests |-> NoError]
    /\ quizId = [r \in Requests |-> 0]
    /\ existingQuestions = [r \in Requests |-> 0]
    /\ rawResponse = [r \in Requests |-> <<>>]
    /\ questionsToInsert = [r \in Requests |-> <<>>]
    /\ res = [r \in Requests |-> <<>>]
    /\ calls = [r \in Requests |-> [a \in Awaits |-> 0]]
    /\ outage = [r \in Requests |-> FALSE]
    /\ env \in Envs
    /\ server = "loading"
    /\ content = [r \in Requests |-> <<>>]

\* Quiz.tsx lines 27-35: the page as it is mounted, before loadQuiz, for the
\* signed-in user u (or none).
Mounted(u) ==
    /\ questions = <<>>
    /\ currentQuestion = 0
    /\ selectedAnswer = Null
    /\ answers = <<>>
    /\ showResults = FALSE
    /\ score = 0
    /\ isLoading = TRUE
    /\ pageQuizId = Null
    /\ isSubmitting = FALSE
    /\ finalScore = 0
    /\ user = u
    /\ toasts = <<>>
    /\ quiz_attempts = {}

Init == ServerInit /\ Mounted(Null)

Count(r, a) == [calls EXCEPT ![r][a] = @ + 1]

\* `return res.status(..).json(..)` / `return res.json(..)`
Respond(r, response) ==
    /\ res' = [res EXCEPT ![r] = Append(@, response)]
    /\ pc' = [pc EXCEPT ![r] = "done"]

\* Variant: the outer catch logs the error and sends nothing.
Throw_Silent(r, msg) == pc' = [pc EXCEPT ![r] = "done"] /\ UNCHANGED res

\* Variant: the failed call is awaited again instead of ending the request.
Throw_Retry(r, msg) == UNCHANGED <<res, pc>>

\* `throw new Error(msg)` inside the outer try
Throw(r, msg) == Respond(r, InternalError(msg))

\* The awaited call came back with an error (or rejected).
Failed(r, outcome) == outage' = [outage EXCEPT ![r] = @ \/ outcome = "fail"]

\* ----------------------------------------------------------------- actions
\* index.ts: the imports are evaluated (supabase/client, then routes/quiz),
\* and if none throws, app.listen is reached.
Start ==
    /\ server = "loading"
    /\ server' = IF ClientThrows(env) \/ OpenAIThrows(env)
                 THEN "crashed" ELSE "listening"
    /\ UNCHANGED pageVars
    /\ UNCHANGED <<quizzes, quiz_questions, pc, query, quizError, quizId,
                   existingQuestions, rawResponse, questionsToInsert, res,
                   calls, outage, env, content>>

\* lines 17-30: the request arrives; the quiz lookup is issued.  Requests
\* are numbered in their order of arrival.
ReceiveFrom(r, inputs) ==
    /\ server = "listening"
    /\ pc[r] = "idle"
    /\ \A s \in Requests : s < r => pc[s] # "idle"
    /\ \E q \in inputs :
        /\ query' = [query EXCEPT ![r] = q]
        /\ IF DomainRejected(q)
           THEN Respond(r, DomainRequired)
           ELSE /\ pc' = [pc EXCEPT ![r] = "quizLookup"]
                /\ UNCHANGED res
    /\ UNCHANGED pageVars
    /\ UNCHANGED <<quizzes, quiz_questions, quizError, quizId,
                   existingQuestions, rawResponse, questionsToInsert, calls,
                   outage, env, server, content>>

Receive(r) == ReceiveFrom(r, QueryInputs)

\* lines 26-40: the quiz lookup answers.
QuizLookup(r) ==
    /\ pc[r] = "quizLookup"
    /\ calls' = Count(r, "quizLookup")
    /\ \E outcome \in StoreOutcomes, m \in StoreMessages :
        LET result == IF outcome = "fail"
                      THEN [data |-> {}, error |-> StoreError]
                      ELSE Single({q \in quizzes : q.domain = query[r].value})
        IN  /\ Failed(r, outcome)
            /\ quizError' = [quizError EXCEPT ![r] = result.error]
            /\ IF LookupAborts(result.error)
               THEN /\ Throw(r, ErrorMessage("Error checking quiz", m))
                    /\ UNCHANGED quizId
               ELSE IF result.data # {}
               THEN /\ quizId' = [quizId EXCEPT
                                    ![r] = (CHOOSE q \in result.data : TRUE).id]
                    /\ pc' = [pc EXCEPT ![r] = "questionLookup"]
                    /\ UNCHANGED res
               ELSE /\ pc' = [pc EXCEPT ![r] = "quizInsert"]
                    /\ UNCHANGED <<quizId, res>>
    /\ UNCHANGED pageVars
    /\ UNCHANGED <<quizzes, quiz_questions, query, existingQuestions,
                   rawResponse, questionsToInsert,
                   env, server,
                   content>>

\* lines 41-52: the quiz insert answers.
QuizInsert(r) ==
    /\ pc[r] = "quizInsert"
    /\ calls' = Count(r, "quizInsert")
    /\ \E outcome \in StoreOutcomes, m \in StoreMessages :
        /\ Failed(r, outcome)
        /\ IF outcome = "fail" \/ UniqueViolation(quizzes, query[r].value)
           THEN /\ Throw(r, ErrorMessage("Error creating quiz",
                                         IF outcome = "fail" THEN m
                                         ELSE DuplicateKey))
                /\ UNCHANGED <<quizzes, quizId>>
           ELSE LET newQuiz == [id |-> Cardinality(quizzes) + 1,
                                domain |-> query[r].value,
                                title |-> getDomainTitle(query[r].value)]
                IN  /\ quizzes' = quizzes \cup {newQuiz}
                    /\ quizId' = [quizId EXCEPT ![r] = newQuiz.id]
                    /\ pc' = [pc EXCEPT ![r] = "questionLookup"]
                    /\ UNCHANGED res
    /\ UNCHANGED pageVars
    /\ UNCHANGED <<quiz_questions, query, quizError, existingQuestions,
                   rawResponse, questionsToInsert,
                   env, server,
                   content>>

\* lines 55-64, 78-102: the question lookup answers; on no rows the model
\* call is issued.
QuestionLookup(r) ==
    /\ pc[r] = "questionLookup"
    /\ calls' = Count(r, "questionLookup")
    /\ \E outcome \in StoreOutcomes, m \in StoreMessages :
        /\ Failed(r, outcome)
        /\ IF outcome = "fail"
           THEN /\ Throw(r, ErrorMessage("Error checking questions", m))
                /\ UNCHANGED existingQuestions
           ELSE LET n == Cardinality({x \in quiz_questions :
                                         x.quiz_id = quizId[r]})
                IN  /\ existingQuestions' =
                           [existingQuestions EXCEPT ![r] = n]
                    /\ pc' = [pc EXCEPT ![r] =
                                IF HasQuestions(n)
                                THEN "questionFetch" ELSE "modelCall"]
                    /\ UNCHANGED res
    /\ UNCHANGED pageVars
    /\ UNCHANGED <<quizzes, quiz_questions, query, quizError, quizId,
                   rawResponse, questionsToInsert,
                   env, server,
                   content>>

\* lines 65-76: the cache hit's ordered read answers.
QuestionFetch(r) ==
    /\ pc[r] = "questionFetch"
    /\ calls' = Count(r, "questionFetch")
    /\ \E outcome \in StoreOutcomes, tie \in TieOrders, m \in StoreMessages :
        /\ Failed(r, outcome)
        /\ IF outcome = "fail"
           THEN Throw(r, ErrorMessage("Error fetching questions", m))
           ELSE Respond(r, Json200(SelectOrdered(quiz_questions, quizId[r],
                                                 tie)))
    /\ UNCHANGED pageVars
    /\ UNCHANGED <<quizzes, quiz_questions, query, quizError, quizId,
                   existingQuestions, rawResponse, questionsToInsert,
                   env, server,
                   content>>

\* lines 97-143: the model call answers (or rejects); the reply is cleaned,
\* parsed and mapped, and the batch insert is issued.
ModelReply(r, contents) ==
    /\ pc[r] = "modelCall"
    /\ calls' = Count(r, "modelCall")
    /\ \/ /\ Failed(r, "fail")
          /\ Throw(r, IF env.OPEN_AI_KEY = IsSet THEN ConnectionError
                      ELSE IncorrectKey)
          /\ UNCHANGED <<rawResponse, questionsToInsert, content>>
       \/ \E c \in contents :
            LET raw == Trim(c)
                qs == quizQuestions(cleanedResponse(raw))
            IN  /\ env.OPEN_AI_KEY = IsSet
                /\ Failed(r, "ok")
                /\ content' = [content EXCEPT ![r] = c]
                /\ rawResponse' = [rawResponse EXCEPT ![r] = raw]
                /\ IF raw = <<>>
                   THEN /\ Throw(r, "OpenAI returned empty response.")
                        /\ UNCHANGED questionsToInsert
                   ELSE IF FormatInvalid(raw)
                   THEN /\ Respond(r, InvalidFormat)
                        /\ UNCHANGED questionsToInsert
                   ELSE IF MapThrows(qs)
                   THEN /\ Throw(r, "TypeError")
                        /\ UNCHANGED questionsToInsert
                   ELSE /\ questionsToInsert' =
                              [questionsToInsert EXCEPT
                                 ![r] = questionsToInsertOf(qs, quizId[r])]
                        /\ pc' = [pc EXCEPT ![r] = "questionInsert"]
                        /\ UNCHANGED res
    /\ UNCHANGED pageVars
    /\ UNCHANGED <<quizzes, quiz_questions, query, quizError, quizId,
                   existingQuestions,
                   env, server>>

\* lines 141-153: the batch insert answers.
QuestionInsert(r) ==
    /\ pc[r] = "questionInsert"
    /\ calls' = Count(r, "questionInsert")
    /\ \E outcome \in StoreOutcomes, m \in StoreMessages :
        /\ Failed(r, outcome)
        /\ IF outcome = "fail"
           THEN /\ Throw(r, ErrorMessage("Error inserting questions", m))
                /\ quiz_questions' =
                      AfterFailedInsert(quiz_questions, questionsToInsert[r])
           ELSE /\ quiz_questions' =
                      AfterInsert(quiz_questions, questionsToInsert[r])
                /\ pc' = [pc EXCEPT ![r] = "reread"]
                /\ UNCHANGED res
    /\ UNCHANGED pageVars
    /\ UNCHANGED <<quizzes, query, quizError, quizId, existingQuestions,
                   rawResponse, questionsToInsert,
                   env, server,
                   content>>

\* lines 149-159: the read of the inserted rows answers.
Reread(r) ==
    /\ pc[r] = "reread"
    /\ calls' = Count(r, "reread")
    /\ \E outcome \in StoreOutcomes, tie \in TieOrders, m \in StoreMessages :
        /\ Failed(r, outcome)
        /\ IF outcome = "fail"
           THEN Throw(r, ErrorMessage("Error fetching inserted questions",
                                      m))
           ELSE Respond(r, Json200(SelectOrdered(quiz_questions, quizId[r],
                                                 tie)))
    /\ UNCHANGED pageVars
    /\ UNCHANGED <<quizzes, quiz_questions, query, quizError, quizId,
                   existingQuestions, rawResponse, questionsToInsert,
                   env, server,
                   content>>

\* Requests interleave at every await.
Next ==
    \/ Start
    \/ \E r \in Requests :
        \/ Receive(r)
        \/ QuizLookup(r)
        \/ QuizInsert(r)
        \/ QuestionLookup(r)
        \/ QuestionFetch(r)
        \/ ModelReply(r, CoreContents)
        \/ QuestionInsert(r)
        \/ Reread(r)

Spec == Init /\ [][Next]_vars

LiveContents == {<<JsonArray(GoodItems(1, QuizSize))>>, <<>>}

\* Progress: the process starts, and every store call a request awaits is
\* answered.  Nothing in the handler makes the model call end: it is awaited
\* without a timeout or an abort signal (lines 97-102), so it ends only if
\* the client library makes it end.
Fairness ==
    /\ WF_vars(Start)
    /\ \A r \in Requests :
        /\ WF_vars(QuizLookup(r))
        /\ WF_vars(QuizInsert(r))
        /\ WF_vars(QuestionLookup(r))
        /\ WF_vars(QuestionFetch(r))
        /\ WF_vars(QuestionInsert(r))
        /\ WF_vars(Reread(r))

\* The interleaved requests of Next, the model answering well or with
\* nothing.
LiveNext ==
    \/ Start
    \/ \E r \in Requests :
        \/ Receive(r)
        \/ QuizLookup(r)
        \/ QuizInsert(r)
        \/ QuestionLookup(r)
        \/ QuestionFetch(r)
        \/ ModelReply(r, LiveContents)
        \/ QuestionInsert(r)
        \/ Reread(r)

LiveSpec == Init /\ [][LiveNext]_vars /\ Fairness

\* A caller that issues its requests one after the other: a request is sent
\* when every earlier one has been answered.
InFlight(r) == pc[r] \notin {"idle", "done"}

SeqNext ==
    \/ Start
    \/ \E r \in Requests :
        \/ (\A s \in Requests : ~InFlight(s)) /\ Receive(r)
        \/ QuizLookup(r)
        \/ QuizInsert(r)
        \/ QuestionLookup(r)
        \/ QuestionFetch(r)
        \/ ModelReply(r, Contents)
        \/ QuestionInsert(r)
        \/ Reread(r)

SeqSpec == Init /\ [][SeqNext]_vars

\* The same caller asking for every key of the title table and for domains
\* outside it (another name, and a key in another case), the model
\* answering well or with nothing.
TitleDomains ==
    {"web-development", "data-science", "backend", "ai-ml", "networking",
     "algorithms", "rust", "Algorithms"}
TitleInputs == {[type |-> "string", value |-> d] : d \in TitleDomains}
TitleContents == {<<JsonArray(GoodItems(1, QuizSize))>>, <<>>}

TitleNext ==
    \/ Start
    \/ \E r \in Requests :
        \/ (\A s \in Requests : ~InFlight(s)) /\ ReceiveFrom(r, TitleInputs)
        \/ QuizLookup(r)
        \/ QuizInsert(r)
        \/ QuestionLookup(r)
        \/ QuestionFetch(r)
        \/ ModelReply(r, TitleContents)
        \/ QuestionInsert(r)
        \/ Reread(r)

TitleSpec == Init /\ [][TitleNext]_vars

\* ----------------------------------------------------- the quiz page
\* Quiz.tsx.  A question of the page, by what the scoring reads of it.
MaxQuestions == 3
Choices == {"A", "B"}
Users == {Null, "student"}

QuestionLists ==
    UNION {[1..n -> [correct_answer : Choices]] : n \in 1..MaxQuestions}

\* answers[i]: a key that was never set reads as undefined.
AnswerAt(ans, i) == IF i \in DOMAIN ans THEN ans[i] ELSE Undefined

\* Variant: the loop reads the answers with the current one already saved.
newScore_Fresh(ans, selected, qs, current) ==
    Cardinality({i \in 0..(Len(qs) - 1) :
                    AnswerAt((current :> selected) @@ ans, i)
                        = qs[i + 1].correct_answer})
        + (IF selected = qs[current + 1].correct_answer THEN 1 ELSE 0)

\* lines 107-115: the loop over `answers` as the handler's closure holds it
\* (setAnswers has not taken effect), then the current selection.
newScore(ans, selected, qs, current) ==
    Cardinality({i \in 0..(Len(qs) - 1) :
                    AnswerAt(ans, i) = qs[i + 1].correct_answer})
        + (IF selected = qs[current + 1].correct_answer THEN 1 ELSE 0)

\* The quiz view is on screen: not the loader, not the results.
QuizView == ~isLoading /\ ~showResults /\ questions # <<>>

\* lines 43-77: loadQuiz ends, with the questions or with the error toast
\* and the navigation away.
LoadQuiz ==
    /\ isLoading
    /\ isLoading' = FALSE
    /\ \/ \E qs \in QuestionLists :
            /\ questions' = qs
            /\ pageQuizId' = "quiz"
            /\ UNCHANGED toasts
       \/ /\ toasts' = Append(toasts, "Error")
          /\ UNCHANGED <<questions, pageQuizId>>
    /\ UNCHANGED <<currentQuestion, selectedAnswer, answers, showResults,
                   score, isSubmitting, finalScore, user, quiz_attempts>>
    /\ UNCHANGED serverVars

\* lines 91-93
handleAnswerSelect(answer) ==
    /\ QuizView
    /\ selectedAnswer' = answer
    /\ UNCHANGED <<questions, currentQuestion, answers, showResults, score,
                   isLoading, pageQuizId, isSubmitting, finalScore, user,
                   toasts, quiz_attempts>>
    /\ UNCHANGED serverVars

\* lines 95-121, with the synchronous start of submitQuizResults (lines
\* 130-133)
handleNext ==
    /\ QuizView
    /\ selectedAnswer # Null
    /\ answers' = (currentQuestion :> selectedAnswer) @@ answers
    /\ IF currentQuestion < Len(questions) - 1
       THEN /\ currentQuestion' = currentQuestion + 1
            /\ selectedAnswer' = Null
            /\ UNCHANGED <<showResults, score, isSubmitting, finalScore>>
       ELSE LET new == newScore(answers, selectedAnswer, questions,
                                currentQuestion)
            IN  /\ score' = new
                /\ showResults' = TRUE
                /\ IF pageQuizId = Null \/ user = Null
                   THEN UNCHANGED <<isSubmitting, finalScore>>
                   ELSE /\ isSubmitting' = TRUE
                        /\ finalScore' = new
                /\ UNCHANGED <<currentQuestion, selectedAnswer>>
    /\ UNCHANGED <<questions, isLoading, pageQuizId, user, toasts,
                   quiz_attempts>>
    /\ UNCHANGED serverVars

\* lines 123-128
handlePrevious ==
    /\ QuizView
    /\ currentQuestion > 0
    /\ currentQuestion' = currentQuestion - 1
    /\ selectedAnswer' =
          IF AnswerAt(answers, currentQuestion - 1) = Undefined
          THEN Null ELSE answers[currentQuestion - 1]
    /\ UNCHANGED <<questions, answers, showResults, score, isLoading,
                   pageQuizId, isSubmitting, finalScore, user, toasts,
                   quiz_attempts>>
    /\ UNCHANGED serverVars

\* lines 135-159: the insert into quiz_attempts answers.
submitQuizResults ==
    /\ isSubmitting
    /\ isSubmitting' = FALSE
    /\ \E outcome \in StoreOutcomes :
        IF outcome = "ok"
        THEN /\ quiz_attempts' =
                   quiz_attempts \cup
                       {[id |-> Cardinality(quiz_attempts) + 1,
                         quiz_id |-> pageQuizId, student_id |-> user,
                         score |-> finalScore,
                         max_score |-> Len(questions)]}
             /\ toasts' = Append(toasts, "Quiz submitted")
        ELSE /\ toasts' = Append(toasts, "Error")
             /\ UNCHANGED quiz_attempts
    /\ UNCHANGED <<questions, currentQuestion, selectedAnswer, answers,
                   showResults, score, isLoading, pageQuizId, finalScore,
                   user>>
    /\ UNCHANGED serverVars

PageInit ==
    /\ ServerInit
    /\ env = [NODE_ENV |-> "development", SUPABASE_URL |-> IsSet,
              SUPABASE_KEY |-> IsSet, OPEN_AI_KEY |-> IsSet]
    /\ \E u \in Users : Mounted(u)

PageNext ==
    \/ LoadQuiz
    \/ \E answer \in Choices : handleAnswerSelect(answer)
    \/ handleNext
    \/ handlePrevious
    \/ submitQuizResults

PageSpec == PageInit /\ [][PageNext]_vars

\* ------------------------------------------------------- reading the state
Accepted(r) == pc[r] # "idle" /\ ~DomainRejected(query[r])
Done(r) == pc[r] = "done"
SameDomain(r, s) == Accepted(r) /\ Accepted(s) /\ query[r].value = query[s].value
\* The model has been called in request r (answered or not yet).
ModelCalled(r) == pc[r] = "modelCall" \/ calls[r]["modelCall"] > 0
Succeeded(r) == Done(r) /\ Len(res[r]) = 1 /\ res[r][1].status = 200
QuestionsOf(qid) == {x \in quiz_questions : x.quiz_id = qid}

Body(r) == res[r][1].body
GoodReply(raw) == \E v \in Variants : raw = <<JsonArray(GoodItems(v, QuizSize))>>
\* Neither the store nor the model let request r down.
Healthy(r) ==
    /\ ~outage[r]
    /\ calls[r]["modelCall"] > 0 => GoodReply(rawResponse[r])
\* No request for the domain of r has arrived after r.
Latest(r) == \A s \in Requests : s > r => ~SameDomain(r, s)

\* ------------------------------------------------------------------ claims

\* C1: concurrent requests for one unseen domain call the generative model
\* once between them: of the requests for a domain that are in flight at the
\* same time, at most one has called the model.
C1_OneGenerationCall ==
    \A r, s \in Requests :
        (r # s /\ SameDomain(r, s) /\ InFlight(r) /\ InFlight(s))
            => ~(ModelCalled(r) /\ ModelCalled(s))

\* C2: in every store state each quiz has exactly 0 or exactly 10 question
\* rows.
C2_ZeroOrTenRows ==
    \A q \in quizzes : Cardinality(QuestionsOf(q.id)) \in {0, QuizSize}

\* C3: when neither the store nor the model fails, every caller for a domain
\* is answered 200 with the same 10 questions in the same order.
C3_SameTenForAll ==
    \A r, s \in Requests :
        (SameDomain(r, s) /\ Done(r) /\ Done(s) /\ Healthy(r) /\ Healthy(s))
            => /\ Succeeded(r) /\ Succeeded(s)
               /\ Len(Body(r)) = QuizSize
               /\ Body(r) = Body(s)

\* C4: at most one row of quizzes exists for any domain.
C4_OneQuizPerDomain ==
    \A a, b \in quizzes : a.domain = b.domain => a = b

\* Two requests both saw no row for the domain and both tried the insert;
\* one row exists.
C4_Witness ==
    \E r, s \in Requests :
        /\ r # s /\ SameDomain(r, s)
        /\ quizError[r] = NotFound /\ quizError[s] = NotFound
        /\ calls[r]["quizInsert"] = 1 /\ calls[s]["quizInsert"] = 1
        /\ ~outage[r] /\ ~outage[s]
        /\ Cardinality({q \in quizzes : q.domain = query[r].value}) = 1

\* C5: of calls made one after the other, once one has succeeded every later
\* call for the domain that meets no store failure is answered with the same
\* list in the same order.
C5_Idempotent ==
    \A r, s \in Requests :
        (r < s /\ SameDomain(r, s) /\ Succeeded(r) /\ Done(s) /\ ~outage[s])
            => res[s] = res[r]

C5_Witness ==
    \E r, s \in Requests :
        /\ r < s /\ SameDomain(r, s) /\ Succeeded(r) /\ Succeeded(s)
        /\ calls[r]["modelCall"] = 1
        /\ Len(Body(s)) = QuizSize

\* C6: every 200 response carries exactly 10 questions with question_order
\* 1..10 ascending.
C6_Every200HasTen ==
    \A r \in Requests :
        Succeeded(r)
            => /\ Len(Body(r)) = QuizSize
               /\ \A k \in 1..Len(Body(r)) : Body(r)[k].question_order = k

\* C7: a request whose question lookup found at least one row never calls the
\* model and writes nothing; what it returns are the stored rows of its quiz
\* (all that the lookup saw) in ascending question_order.  Its only other
\* answer is the error of a failed read.
C7_CacheHit ==
    \A r \in Requests :
        existingQuestions[r] > 0
            => /\ ~ModelCalled(r)
               /\ calls[r]["questionInsert"] = 0
               /\ Done(r) =>
                    \/ \E m \in StoreMessages :
                         res[r] = <<InternalError(ErrorMessage(
                                       "Error fetching questions", m))>>
                    \/ /\ Succeeded(r)
                       /\ Len(Body(r)) >= existingQuestions[r]
                       /\ \A k \in 1..Len(Body(r)) :
                            \E x \in QuestionsOf(quizId[r]) :
                                Project(x) = Body(r)[k]
                       /\ \A k \in 1..(Len(Body(r)) - 1) :
                            /\ Body(r)[k].question_order
                                   <= Body(r)[k + 1].question_order
                            /\ Body(r)[k].id # Body(r)[k + 1].id

C7_Witness ==
    \E r \in Requests :
        /\ existingQuestions[r] = QuizSize
        /\ Succeeded(r)
        /\ Len(Body(r)) = QuizSize

\* The completion holds a JSON array of 10 entries somewhere.
HasTenArray(raw) ==
    \E i \in 1..Len(raw) :
        raw[i].json = "array" /\ Len(raw[i].items) = QuizSize

\* C8: a completion that is not JSON, not an array or not of length 10 ends
\* the request with the format error; the request inserts no row, and the
\* domain is left without questions.
C8_FormatRejected ==
    \A r \in Requests :
        (rawResponse[r] # <<>> /\ ~HasTenArray(rawResponse[r]))
            => /\ Done(r)
               /\ res[r] = <<InvalidFormat>>
               /\ calls[r]["questionInsert"] = 0
               /\ Latest(r) => QuestionsOf(quizId[r]) = {}

\* The rejected request is followed by one that generates and succeeds.
C8_Witness ==
    \E r, s \in Requests :
        /\ r < s /\ SameDomain(r, s)
        /\ rawResponse[r] # <<>> /\ ~HasTenArray(rawResponse[r])
        /\ res[r] = <<InvalidFormat>>
        /\ Succeeded(s) /\ calls[s]["modelCall"] = 1

\* The completion is a 10-entry array with a malformed entry.
MalformedReply(raw) ==
    \E h \in MalformedKinds : raw = <<JsonArray(Malformed(h))>>

\* C9: a 10-entry array with a malformed entry ends the request with the
\* format error before any persistence step.
C9_MalformedRejected ==
    \A r \in Requests :
        MalformedReply(rawResponse[r])
            => /\ pc[r] \notin {"questionInsert", "reread"}
               /\ calls[r]["questionInsert"] = 0
               /\ Done(r) => res[r] = <<InvalidFormat>>

\* C10: a quiz lookup that fails with an error other than 'not found' ends
\* the request with an error; the request never calls the model and writes
\* no row.
C10_LookupOutage ==
    \A r \in Requests :
        (quizError[r] # NoError /\ quizError[r] # NotFound)
            => /\ Done(r)
               /\ Len(res[r]) = 1 /\ res[r][1].status = 500
               /\ ~ModelCalled(r)
               /\ calls[r]["quizInsert"] = 0
               /\ calls[r]["questionInsert"] = 0
               /\ quizId[r] = 0

C10_Witness ==
    \E r \in Requests :
        /\ calls[r]["quizLookup"] = 1
        /\ quizError[r] = StoreError
        /\ Done(r)

\* The domain parameter is missing, empty or not a single string.
NoUsableDomain(q) ==
    \/ q.type = "undefined"
    \/ q.type = "array"
    \/ q.type = "string" /\ q.value = ""

\* C11: a request without a usable domain is answered 400 before any store
\* access: no await of the handler is ever reached in it.
C11_InvalidDomainNoAccess ==
    \A r \in Requests :
        (pc[r] # "idle" /\ NoUsableDomain(query[r]))
            => /\ Done(r)
               /\ res[r] = <<DomainRequired>>
               /\ \A a \in Awaits : calls[r][a] = 0
               /\ quizId[r] = 0

\* All three kinds of unusable parameter have been answered.
C11_Witness ==
    /\ MaxRequests >= 2
    /\ \E r, s \in Requests :
        /\ r # s
        /\ Done(r) /\ query[r] = [type |-> "string", value |-> ""]
        /\ Done(s) /\ query[s].type # "string"
        /\ res[r] = <<DomainRequired>> /\ res[s] = <<DomainRequired>>

\* The four failure kinds, told by what happened in the request.
FailureKinds == {"invalid_domain", "store", "unavailable", "format"}

\* The model call of request r was the last await that answered.
EndedAtModelCall(r) ==
    Done(r) /\ calls[r]["modelCall"] = 1 /\ calls[r]["questionInsert"] = 0

FailureKind(r, k) ==
    /\ Done(r)
    /\ CASE k = "invalid_domain" -> NoUsableDomain(query[r])
         [] k = "store" ->
                \/ outage[r] /\ ~EndedAtModelCall(r)
                \/ calls[r]["quizInsert"] = 1 /\ quizId[r] = 0
         [] k = "unavailable" ->
                EndedAtModelCall(r) /\ (outage[r] \/ rawResponse[r] = <<>>)
         [] k = "format" ->
                EndedAtModelCall(r) /\ ~outage[r] /\ rawResponse[r] # <<>>

ConfigMissing ==
    \/ Falsy(env.SUPABASE_URL)
    \/ Falsy(env.SUPABASE_KEY)
    \/ Falsy(env.OPEN_AI_KEY)

\* C13: with a required setting absent the server never listens and never
\* takes a quiz request.
C13_FailFast ==
    ConfigMissing => /\ server # "listening"
                     /\ \A r \in Requests : pc[r] = "idle"

\* Requests r and s failed at the same await: they differ at most in the
\* message of the underlying error.
SameFailure(r, s) ==
    /\ Done(r) /\ Done(s)
    /\ outage[r] /\ outage[s]
    /\ calls[r] = calls[s]

\* C14: outside development mode a 500 carries no error detail, so two
\* requests that failed alike are answered alike.
C14_DetailOnlyInDevelopment ==
    env.NODE_ENV # "development"
        => /\ \A r \in Requests : \A i \in 1..Len(res[r]) :
                res[r][i].status = 500 => res[r][i].error = ""
           /\ \A r, s \in Requests : SameFailure(r, s) => res[r] = res[s]

\* The keys of the title table and the fallback title, as the contract
\* names them.
KnownKeys ==
    {"web-development", "data-science", "backend", "ai-ml", "networking",
     "algorithms"}
FallbackTitle == "Skill Assessment Quiz"

\* C15: a quiz row created for a known key carries that key's own title
\* (different from the fallback and from every other key's), with the two
\* titles the contract spells out; a row for any other domain carries the
\* fallback.
C15_TitleDerivation ==
    /\ \A q \in quizzes :
        /\ q.domain = "web-development" => q.title = "Web Development Quiz"
        /\ q.domain = "algorithms"
              => q.title = "Algorithms & Data Structures Quiz"
        /\ q.domain \in KnownKeys => q.title # FallbackTitle
        /\ q.domain \notin KnownKeys => q.title = FallbackTitle
    /\ \A p, q \in quizzes :
        (p.domain \in KnownKeys /\ q.domain \in KnownKeys
            /\ p.domain # q.domain) => p.title # q.title

\* Quiz rows exist for a known key and for a domain outside the table.
C15_Witness ==
    \E p, q \in quizzes :
        /\ p.domain = "networking" /\ p.title # FallbackTitle
        /\ q.domain \notin KnownKeys /\ q.title = FallbackTitle

\* Request 1 arrives on the empty store; here it was accepted, and neither
\* the store nor the model failed it.
FirstRequestServed == Accepted(1) /\ Done(1) /\ Healthy(1)

\* C16: the first request, served with a well-formed reply and no store
\* failure, leaves one quiz row for its domain with the mapped title and
\* ten question rows numbered 1..10, and its 200 body is those rows in
\* that order.
C16_EndToEnd ==
    FirstRequestServed =>
        LET d == query[1].value
            rows == QuestionsOf(quizId[1])
        IN  /\ Succeeded(1)
            /\ Cardinality({q \in quizzes : q.domain = d}) = 1
            /\ \A q \in quizzes :
                q.domain = d
                    => /\ q.id = quizId[1]
                       /\ q.title = IF d = "algorithms"
                                    THEN "Algorithms & Data Structures Quiz"
                                    ELSE "Skill Assessment Quiz"
            /\ Cardinality(rows) = QuizSize
            /\ {x.question_order : x \in rows} = 1..QuizSize
            /\ Len(Body(1)) = QuizSize
            /\ \A i \in 1..QuizSize :
                /\ Body(1)[i].question_order = i
                /\ \E x \in rows : Project(x) = Body(1)[i]
            /\ \E v \in Variants :
                /\ rawResponse[1] = <<JsonArray(GoodItems(v, QuizSize))>>
                /\ \A i \in 1..QuizSize :
                    /\ Body(1)[i].question = GoodItem(v, i).question
                    /\ Body(1)[i].options = GoodItem(v, i).options
                    /\ Body(1)[i].correct_answer
                           = GoodItem(v, i).correct_answer

\* The first request asked for "algorithms" and was answered 200.
C16_Witness ==
    /\ FirstRequestServed
    /\ query[1].value = "algorithms"
    /\ calls[1]["reread"] = 1
    /\ Succeeded(1)

\* The state of a domain's quiz in given tables: 0 UNKNOWN, 1
\* EXISTS_NO_QUESTIONS, 2 EXISTS_WITH_QUESTIONS.
QuizState(qz, qq, d) ==
    IF \A q \in qz : q.domain # d THEN 0
    ELSE IF \E q \in qz : q.domain = d /\ \E x \in qq : x.quiz_id = q.id
    THEN 2
    ELSE 1

\* C17: no step, of a request that succeeds or of one that fails, takes a
\* domain's quiz back to an earlier state.
C17_ForwardOnly ==
    [][\A d \in Domains :
          QuizState(quizzes', quiz_questions', d)
              >= QuizState(quizzes, quiz_questions, d)]_vars

\* A domain has its questions and a later request for it has failed.
C17_Witness ==
    /\ \E r, s \in Requests :
        /\ r < s /\ SameDomain(r, s)
        /\ Succeeded(r)
        /\ Done(s) /\ outage[s]
        /\ QuizState(quizzes, quiz_questions, query[r].value) = 2

\* Request r failed after its quiz row was resolved and before its ten
\* questions were stored: at the question lookup, at the model call, on the
\* reply, or at the batch insert.
FailedMidway(r) ==
    /\ Done(r) /\ ~Succeeded(r)
    /\ quizId[r] # 0
    /\ calls[r]["questionFetch"] = 0
    /\ calls[r]["reread"] = 0

\* The batch insert of request s went through.
Stored(s) == pc[s] = "reread" \/ calls[s]["reread"] > 0

\* No request for the domain of r that arrived before s has stored questions.
NoneStoredBefore(r, s) ==
    \A t \in Requests : (t < s /\ SameDomain(r, t)) => ~Stored(t)

\* s is the next request for the domain of r.
NextFor(r, s) ==
    /\ r < s /\ SameDomain(r, s)
    /\ \A t \in Requests : (r < t /\ t < s) => ~SameDomain(r, t)

\* C18: a request that fails midway in a domain without questions leaves the
\* domain with the quiz row and no questions, and the next request for the
\* domain, if nothing fails it, reuses the row, calls the model and answers
\* ten questions.
C18_RetryConverges ==
    \A r \in Requests :
        FailedMidway(r) =>
            /\ (\A s \in Requests : SameDomain(r, s) => ~Stored(s))
                  => /\ \E q \in quizzes :
                          q.id = quizId[r] /\ q.domain = query[r].value
                     /\ QuestionsOf(quizId[r]) = {}
            /\ \A s \in Requests :
                (NextFor(r, s) /\ NoneStoredBefore(r, s)
                    /\ Done(s) /\ Healthy(s))
                    => /\ quizId[s] = quizId[r]
                       /\ calls[s]["quizInsert"] = 0
                       /\ calls[s]["modelCall"] = 1
                       /\ Succeeded(s)
                       /\ Len(Body(s)) = QuizSize
                       /\ Cardinality(QuestionsOf(quizId[s])) = QuizSize

\* A request failed at the batch insert and the retry has succeeded.
C18_Witness ==
    \E r, s \in Requests :
        /\ FailedMidway(r) /\ calls[r]["questionInsert"] = 1
        /\ NextFor(r, s) /\ Healthy(s) /\ Succeeded(s)
        /\ calls[s]["modelCall"] = 1

\* C19: every accepted request is answered in the end, whatever the model
\* does.
C19_EventuallyAnswered ==
    \A r \in Requests : Accepted(r) ~> Done(r)

\* Request r has issued the quiz insert.
QuizInsertIssued(r) == pc[r] = "quizInsert" \/ calls[r]["quizInsert"] > 0

\* C20: the quiz insert is issued exactly when the lookup gave the no-row
\* signal; after any other lookup error the request is over without it;
\* and after a failed quiz insert the request is over without a question
\* lookup or a model call.
C20_OnlyNoRowCreates ==
    \A r \in Requests :
        /\ QuizInsertIssued(r) <=> quizError[r] = NotFound
        /\ quizError[r] = StoreError
              => /\ Done(r) /\ quizId[r] = 0
                 /\ res[r][1].status = 500
                 /\ calls[r]["questionLookup"] = 0
        /\ (calls[r]["quizInsert"] = 1 /\ quizId[r] = 0)
              => /\ Done(r)
                 /\ res[r][1].status = 500
                 /\ calls[r]["questionLookup"] = 0
                 /\ ~ModelCalled(r)

\* One request's lookup gave the no-row signal and its quiz insert failed;
\* another's lookup failed otherwise.
C20_Witness ==
    \E r, s \in Requests :
        /\ quizError[r] = NotFound
        /\ calls[r]["quizInsert"] = 1 /\ quizId[r] = 0 /\ Done(r)
        /\ quizError[s] = StoreError /\ Done(s)

\* The array request r parsed from the model's reply.
ParsedOf(r) == quizQuestions(cleanedResponse(rawResponse[r]))

\* In this step request r's batch insert wrote the rows `new`: one row per
\* element of the parsed array, the i-th with question_order i, the quiz id
\* the request resolved, and the element's content.
BatchWrittenBy(r, new) ==
    /\ pc[r] = "questionInsert" /\ pc'[r] = "reread"
    /\ calls'[r]["questionInsert"] = 1
    /\ Len(ParsedOf(r)) = QuizSize
    /\ Cardinality(new) = QuizSize
    /\ \A i \in 1..QuizSize :
        \E x \in new :
            /\ x.question_order = i
            /\ x.quiz_id = quizId[r] /\ quizId[r] # 0
            /\ x.question = ParsedOf(r)[i].question
            /\ x.options = ParsedOf(r)[i].options
            /\ x.correct_answer = ParsedOf(r)[i].correct_answer

\* C21: every step that adds question rows is one request's batch insert of
\* all ten, numbered 1..10 by array position and tied to its quiz.
C21_BatchByPosition ==
    [][quiz_questions' # quiz_questions
          => \E r \in Requests :
                BatchWrittenBy(r, quiz_questions' \ quiz_questions)]_vars

\* A request has inserted its batch: its quiz has rows numbered 1..10.
C21_Witness ==
    \E r \in Requests :
        /\ pc[r] = "reread"
        /\ {x.question_order : x \in QuestionsOf(quizId[r])} = 1..QuizSize
        /\ Cardinality(QuestionsOf(quizId[r])) = QuizSize

\* body is what a read of the stored rows gives: every stored row once, with
\* its store id, by ascending question_order.
FreshRead(body, rows) ==
    /\ Len(body) = Cardinality(rows)
    /\ {body[i] : i \in 1..Len(body)} = {Project(x) : x \in rows}
    /\ \A i, j \in 1..Len(body) :
        i < j => body[i].question_order <= body[j].question_order

\* C22: the step that ends a request after its insert writes nothing; it
\* answers either 200 with a fresh ordered read of the quiz's stored rows,
\* or, the read having failed, 500, and the inserted rows are still there.
C22_RereadAfterInsert ==
    [][\A r \in Requests :
          (pc[r] = "reread" /\ pc'[r] # "reread")
              => /\ pc'[r] = "done"
                 /\ quiz_questions' = quiz_questions
                 /\ Cardinality({x \in quiz_questions' :
                                    x.quiz_id = quizId[r]}) >= QuizSize
                 /\ Len(res'[r]) = 1
                 /\ \/ /\ res'[r][1].status = 200
                       /\ FreshRead(res'[r][1].body, QuestionsOf(quizId[r]))
                    \/ /\ res'[r][1].status = 500
                       /\ outage'[r]]_vars

\* One request was answered from its re-read; another's re-read failed and
\* its rows are stored.
C22_Witness ==
    \E r, s \in Requests :
        /\ calls[r]["reread"] = 1 /\ Succeeded(r)
        /\ calls[s]["reread"] = 1 /\ Done(s) /\ ~Succeeded(s)
        /\ Cardinality(QuestionsOf(quizId[s])) >= QuizSize

\* C23: within a request every await (the model call and each store call)
\* answers at most once, and a request that one of them failed is over,
\* answered with an error.
C23_NoRetry ==
    \A r \in Requests :
        /\ \A a \in Awaits : calls[r][a] <= 1
        /\ outage[r] => /\ Done(r)
                        /\ Len(res[r]) = 1
                        /\ res[r][1].status = 500

\* A request whose model call failed and another whose batch insert failed
\* are over.
C23_Witness ==
    \E r, s \in Requests :
        /\ outage[r] /\ Done(r)
        /\ calls[r]["modelCall"] = 1 /\ calls[r]["questionInsert"] = 0
        /\ outage[s] /\ Done(s)
        /\ calls[s]["questionInsert"] = 1 /\ calls[s]["reread"] = 0

\* The completion text is empty or white space only.
Blank(c) == \A i \in 1..Len(c) : c[i] = Ws

\* The model call of request r threw.
ModelThrew(r) == EndedAtModelCall(r) /\ outage[r]
\* The model call of request r answered with blank content.
ModelBlank(r) == calls[r]["modelCall"] = 1 /\ ~outage[r] /\ Blank(content[r])

\* C24: a request whose model call threw or gave blank content is over with
\* the outer catch's 500 (for blank content, with the empty-response
\* message), has issued no insert, and leaves its quiz without questions
\* unless a later request for the domain stores some.
C24_UnavailableAborts ==
    \A r \in Requests :
        (ModelThrew(r) \/ ModelBlank(r))
            => /\ Done(r)
               /\ Len(res[r]) = 1
               /\ res[r][1].status = 500
               /\ res[r][1].message = "Internal server error."
               /\ ModelBlank(r)
                     => res[r][1].error = "OpenAI returned empty response."
               /\ calls[r]["questionInsert"] = 0
               /\ questionsToInsert[r] = <<>>
               /\ Latest(r) => QuestionsOf(quizId[r]) = {}

\* The model has answered one request with white space only, and has thrown
\* in another.
C24_Witness ==
    \E r, s \in Requests :
        /\ ModelBlank(r) /\ content[r] = <<Ws>> /\ Done(r)
        /\ ModelThrew(s) /\ Done(s)

\* The three shapes in which the model can hand over the array `arr`: bare,
\* in a fence tagged json, in a fence without a tag.
Bare(arr) == <<arr>>
TaggedFence(arr) == <<Fence, Tag, Ws, arr, Ws, Fence>>
UntaggedFence(arr) == <<Fence, Ws, arr, Ws, Fence>>

\* The model answered request r with ten well-formed questions in one of
\* the three shapes.
WellFormedIn(r, v) ==
    LET arr == JsonArray(GoodItems(v, QuizSize))
    IN  /\ calls[r]["modelCall"] = 1 /\ ~outage[r]
        /\ content[r] \in {Bare(arr), TaggedFence(arr), UntaggedFence(arr)}

\* C25: in each of the three shapes the array is accepted, and the rows it
\* yields are the same ten questions.
C25_FenceStripping ==
    \A r \in Requests : \A v \in Variants :
        (WellFormedIn(r, v) /\ calls[r]["questionInsert"] = 0
             /\ calls[r]["modelCall"] = 1)
            => /\ pc[r] = "questionInsert"
               /\ questionsToInsert[r]
                      = questionsToInsertOf(GoodItems(v, QuizSize), quizId[r])

\* Every row of `old` is in `new` as it was, and `new` has no other row
\* under its id.
RowsKept(old, new) ==
    \A x \in old :
        /\ x \in new
        /\ \A y \in new : y.id = x.id => y = x

\* C26: no step changes or removes a quiz row or a question row.
C26_Immutable ==
    [][/\ RowsKept(quizzes, quizzes')
       /\ RowsKept(quiz_questions, quiz_questions')]_vars

\* Both domains have their quiz and their questions, written by two
\* requests that are over.
C26_Witness ==
    /\ Cardinality(quizzes) = 2
    /\ \A q \in quizzes : Cardinality(QuestionsOf(q.id)) = QuizSize
    /\ \A r \in Requests : Succeeded(r) /\ calls[r]["reread"] = 1

\* The step added quiz rows: it is request r's one quiz insert, of one row
\* for r's domain.
QuizCreatedBy(r) ==
    /\ pc[r] = "quizInsert" /\ calls[r]["quizInsert"] = 0
    /\ calls'[r]["quizInsert"] = 1
    /\ Cardinality(quizzes' \ quizzes) = 1
    /\ \A q \in quizzes' \ quizzes : q.domain = query[r].value
    /\ quiz_questions' = quiz_questions

\* The step added question rows: it is request r's one batch insert, of at
\* most ten rows, each of the quiz of r's domain.
QuestionsCreatedBy(r) ==
    /\ pc[r] = "questionInsert" /\ calls[r]["questionInsert"] = 0
    /\ calls'[r]["questionInsert"] = 1
    /\ Cardinality(quiz_questions' \ quiz_questions) <= QuizSize
    /\ \A x \in quiz_questions' \ quiz_questions :
        \E q \in quizzes : q.id = x.quiz_id /\ q.domain = query[r].value
    /\ quizzes' = quizzes

\* C27: rows are added only by a request's one quiz insert (one row) and
\* its one batch insert (at most ten rows), for the request's own domain,
\* and every other row stays as it is.
C27_SideEffectBound ==
    [][/\ quizzes' # quizzes => \E r \in Requests : QuizCreatedBy(r)
       /\ quiz_questions' # quiz_questions
              => \E r \in Requests : QuestionsCreatedBy(r)
       /\ quizzes \subseteq quizzes'
       /\ quiz_questions \subseteq quiz_questions']_vars

\* A request has created its quiz and ten questions while the other domain
\* has a quiz of its own.
C27_Witness ==
    \E r, s \in Requests :
        /\ Accepted(r) /\ Accepted(s) /\ query[r].value # query[s].value
        /\ calls[r]["quizInsert"] = 1 /\ calls[r]["questionInsert"] = 1
        /\ Cardinality(QuestionsOf(quizId[r])) = QuizSize
        /\ quizId[s] # 0 /\ quizId[s] # quizId[r]
        /\ Done(r) /\ Done(s)

\* When request s arrived, the quiz of its domain had questions: an earlier
\* request of the caller for domain d has stored them.
HadQuestions(s, d) ==
    \E r \in Requests :
        /\ r < s /\ Accepted(r) /\ query[r].value = d
        /\ Done(r) /\ Stored(r)

\* The awaits of a request that write to the store.
Writes == {"quizInsert", "questionInsert"}

\* C28: no step of a request for a domain whose quiz had questions when it
\* arrived changes a table, issues a write, or calls the model.
C28_CachedNoWrite ==
    [][\A s \in Requests :
          (pc'[s] # pc[s] /\ query'[s].type = "string"
               /\ HadQuestions(s, query'[s].value))
              => /\ quizzes' = quizzes
                 /\ quiz_questions' = quiz_questions
                 /\ pc'[s] \in {"quizLookup", "questionLookup",
                                "questionFetch", "done"}
                 /\ \A a \in Writes \cup {"modelCall"} : calls'[s][a] = 0
      ]_vars

\* A request was answered from the rows stored by an earlier request whose
\* own re-read had failed.
C28_Witness ==
    \E r, s \in Requests :
        /\ HadQuestions(s, query[s].value) /\ Accepted(s)
        /\ r < s /\ SameDomain(r, s) /\ Stored(r) /\ ~Succeeded(r)
        /\ calls[s]["questionFetch"] = 1 /\ Succeeded(s)

\* C29: a handler that has returned has sent exactly one response, with
\* status 200, 400 or 500, and a handler that has not returned has sent
\* none.
C29_ExactlyOneResponse ==
    \A r \in Requests :
        /\ Done(r) => /\ Len(res[r]) = 1
                      /\ res[r][1].status \in {200, 400, 500}
        /\ ~Done(r) => res[r] = <<>>

\* One handler has returned with the format error, another with the 200 of
\* a generation.
C29_Witness ==
    \E r, s \in Requests :
        /\ Done(r) /\ res[r] = <<InvalidFormat>>
        /\ Done(s) /\ calls[s]["reread"] = 1 /\ res[s][1].status = 200

\* The number of questions whose saved answer is the correct one.
CorrectSaved ==
    Cardinality({i \in 0..(Len(questions) - 1) :
                    AnswerAt(answers, i) = questions[i + 1].correct_answer})

\* C30: once the last question is submitted, the score is the number of
\* questions whose saved answer is correct, it is between 0 and the number
\* of questions, every question has a saved answer, and an attempt that is
\* recorded (or about to be) carries this score and max_score =
\* questions.length; a "Quiz submitted" toast means one attempt is recorded.
C30_ScoreIsCorrectCount ==
    /\ showResults =>
        /\ score = CorrectSaved
        /\ score >= 0 /\ score <= Len(questions)
        /\ \A i \in 0..(Len(questions) - 1) :
            AnswerAt(answers, i) \in Choices
        /\ isSubmitting => finalScore = score
        /\ \A a \in quiz_attempts :
            a.score = score /\ a.max_score = Len(questions)
        /\ (toasts # <<>> /\ toasts[Len(toasts)] = "Quiz submitted")
              => Cardinality(quiz_attempts) = 1
    /\ ~showResults => quiz_attempts = {}

\* A quiz of MaxQuestions questions was submitted with some answers right,
\* the last one among them, and some wrong, and the attempt is recorded.
C30_Witness ==
    /\ showResults
    /\ Len(questions) = MaxQuestions
    /\ score > 0 /\ score < Len(questions)
    /\ answers[Len(questions) - 1]
           = questions[Len(questions)].correct_answer
    /\ quiz_attempts # {}

====
